---- MODULE Spec2Model ----
(***************************************************************************)
(* A model of package jsonerror: the structured error JE and the           *)
(* concurrent ErrorCollection (addError's duplicate policy, the RWMutex     *)
(* discipline of AddError / AddErrors / AddErrorCollection / Error, IsNil). *)
(* Strings are TLA+ strings, built with \o as fmt.Sprintf builds them.      *)
(***************************************************************************)
EXTENDS Integers, Sequences, FiniteSets, TLC

\* ------------------------------------------------------------------ bounds
\* goroutines sharing the collections (specification SpecConc)
NumThreads == 2
\* entries a collection may reach by a call (a call that could grow its
\* receiver beyond MaxLen is not started)
MaxLen == 3
\* length of the argument list of one AddErrors call
MaxBatch == 2
\* entries of a collection that is merged into itself (specification SpecSelf)
MaxSelf == 2

\* ------------------------------------------------- DuplicatationOptions
AllowDuplicates == 0
RejectDuplicatesIgnoreTimestamp == 1
RejectDuplicates == 2

Policies == {AllowDuplicates, RejectDuplicatesIgnoreTimestamp, RejectDuplicates}

\* the two collections of a behaviour, and the goroutines
Colls == {1, 2}
Threads == 1 .. NumThreads
NoThread == 0

\* the two goroutines of the specification SpecShared
Sharers == {1, 2}

\* ------------------------------------------------------------ error values
\* An error interface value: its dynamic type (kind) and the fields of the
\* value it holds. Nil is the nil interface.
Nil ==
  [kind |-> "nil", Code |-> 0, Domain |-> "", error |-> "", message |-> "",
   time |-> 0, DisplayTime |-> FALSE, s |-> "", ref |-> 0]

\* New(code, error, message, domain...): domain is the variadic list, now is
\* the reading of time.Now().UTC() (an instant, as UnixNano).
New(code, error, message, domain, now) ==
  LET j == [Nil EXCEPT !.kind = "JE", !.Code = code, !.error = error,
                       !.message = message, !.time = now]
  IN  IF Len(domain) # 0 THEN [j EXCEPT !.Domain = domain[1]] ELSE j

NewAndDisplayTime(code, error, message, domain, now) ==
  LET j == [Nil EXCEPT !.kind = "JE", !.Code = code, !.error = error,
                       !.message = message, !.time = now, !.DisplayTime = TRUE]
  IN  IF Len(domain) # 0 THEN [j EXCEPT !.Domain = domain[1]] ELSE j

\* &j : an error holding a *JE
PtrTo(j) == [j EXCEPT !.kind = "*JE"]

\* an error that is not a JE (errors.New(text) of the standard library)
GenericError(text) == [Nil EXCEPT !.kind = "errorString", !.s = text]

\* an error holding the *ErrorCollection c
CollectionError(c) == [Nil EXCEPT !.kind = "*ErrorCollection", !.ref = c]

\* ---------------------------------------------------------------- strings
Digit == <<"0", "1", "2", "3", "4", "5", "6", "7", "8", "9">>

\* fmt.Sprintf("%d", n)
RECURSIVE Itoa(_)
Itoa(n) ==
  IF n < 0 THEN "-" \o Itoa(0 - n)
  ELSE IF n < 10 THEN Digit[n + 1]
  ELSE Itoa(n \div 10) \o Digit[(n % 10) + 1]

\* Error() with the domain written before the label
JE_Error_DomainFirst(j) ==
  LET s0 == "[code]: " \o Itoa(j.Code)
      s1 == IF j.Domain # "" THEN s0 \o " [domain]: " \o j.Domain ELSE s0
      s2 == IF j.error # "" THEN s1 \o " [error]: " \o j.error ELSE s1
      s3 == IF j.message # "" THEN s2 \o " [message]: " \o j.message ELSE s2
      s4 == IF j.DisplayTime THEN s3 \o " [time]: " \o Itoa(j.time) ELSE s3
  IN  s4

\* (j JE) Error()
JE_Error(j) ==
  LET s0 == "[code]: " \o Itoa(j.Code)
      s1 == IF j.error # "" THEN s0 \o " [error]: " \o j.error ELSE s0
      s2 == IF j.message # "" THEN s1 \o " [message]: " \o j.message ELSE s1
      s3 == IF j.Domain # "" THEN s2 \o " [domain]: " \o j.Domain ELSE s2
      s4 == IF j.DisplayTime THEN s3 \o " [time]: " \o Itoa(j.time) ELSE s3
  IN  s4

\* the result of a Render() that puts the domain in a mapping of its own
Render_WithDomain(j) ==
  IF j.Domain # ""
  THEN [code |-> Itoa(j.Code), domain |-> j.Domain]
  ELSE IF j.error = ""
       THEN IF j.message = ""
            THEN [code |-> Itoa(j.Code)]
            ELSE [code |-> Itoa(j.Code), message |-> j.message]
       ELSE IF j.message = ""
            THEN [code |-> Itoa(j.Code), error |-> j.error]
            ELSE [code |-> Itoa(j.Code), error |-> j.error, message |-> j.message]

\* (j JE) Render(): a map[string]string, as the function from its keys
Render(j) ==
  IF j.error = ""
  THEN IF j.message = ""
       THEN [code |-> Itoa(j.Code)]
       ELSE [code |-> Itoa(j.Code), message |-> j.message]
  ELSE IF j.message = ""
       THEN [code |-> Itoa(j.Code), error |-> j.error]
       ELSE [code |-> Itoa(j.Code), error |-> j.error, message |-> j.message]

\* err.Error() of an entry of a collection: a JE (held by value or through a
\* pointer) or a generic error, whose text is its string
ErrorString(err) ==
  IF err.kind \in {"JE", "*JE"} THEN JE_Error(err) ELSE err.s

\* ----------------------------------------------------------- addError
\* the type switches err.(JE) / err.(*JE): the value is a structured error
IsJE(err) == err.kind \in {"JE", "*JE"}

\* DeepEqual that stops at the dynamic types
DeepEqual_TypeOnly(x, y) == x.kind = y.kind

\* reflect.DeepEqual of two error values: same dynamic type and deeply equal
\* contents (a pointer is followed to the value it points to)
DeepEqual(x, y) == x = y

\* the dedup test with the timestamps compared under every rejecting policy
IsDuplicateOf_AlwaysTime(dup, containedErr, err) ==
  IF err.kind \in {"JE", "*JE"} /\ containedErr.kind \in {"JE", "*JE"}
  THEN /\ err.Code = containedErr.Code
       /\ err.Domain = containedErr.Domain
       /\ err.error = containedErr.error
       /\ err.message = containedErr.message
       /\ err.time = containedErr.time
  ELSE containedErr = err

\* the dedup test with the timestamps never compared
IsDuplicateOf_NeverTime(dup, containedErr, err) ==
  IF err.kind \in {"JE", "*JE"} /\ containedErr.kind \in {"JE", "*JE"}
  THEN /\ err.Code = containedErr.Code
       /\ err.Domain = containedErr.Domain
       /\ err.error = containedErr.error
       /\ err.message = containedErr.message
  ELSE containedErr = err

\* the body of the dedup loop for one contained entry: TRUE when addError
\* returns without appending
IsDuplicateOf(dup, containedErr, err) ==
  IF IsJE(err) /\ IsJE(containedErr)
  THEN /\ err.Code = containedErr.Code
       /\ err.Domain = containedErr.Domain
       /\ err.error = containedErr.error
       /\ err.message = containedErr.message
       /\ IF dup = RejectDuplicates THEN err.time = containedErr.time ELSE TRUE
  ELSE DeepEqual(containedErr, err)

\* for i, containedErr := range errs { ... return ... }, from index i on
RECURSIVE ScanFrom(_, _, _, _)
ScanFrom(dup, errs, err, i) ==
  IF i > Len(errs) THEN FALSE
  ELSE IF IsDuplicateOf(dup, errs[i], err) THEN TRUE
  ELSE ScanFrom(dup, errs, err, i + 1)

\* addError without its nil check
Rejects_NoNilCheck(dup, errs, err) ==
  dup # AllowDuplicates /\ ScanFrom(dup, errs, err, 1)

\* addError scanning under every policy
Rejects_AlwaysScan(dup, errs, err) ==
  \/ err = Nil
  \/ ScanFrom(dup, errs, err, 1)

\* addError returns before its append: err is nil, or the policy rejects
\* duplicates and the scan finds one
Rejects(dup, errs, err) ==
  \/ err = Nil
  \/ dup # AllowDuplicates /\ ScanFrom(dup, errs, err, 1)

\* ------------------------------------------------------------- formatters
\* the values of the Formatter field: DefaultErrorFormatter, nil, and a
\* formatter of the caller's own
Formatters == {"default", "nil", "custom"}

\* DefaultErrorFormatter: *str = fmt.Sprintf("%s\n%d:%s", *str, i, err.Error())
DefaultErrorFormatter(i, err, str) ==
  str \o "\n" \o Itoa(i) \o ":" \o ErrorString(err)

\* a caller's formatter: one "<i|text>" item per call
CustomFormatter(i, err, str) ==
  str \o "<" \o Itoa(i) \o "|" \o ErrorString(err) \o ">"

\* the formatter called with one-based indexes
CallFormatter_OneBased(f, i, err, str) ==
  IF f = "default" THEN DefaultErrorFormatter(i + 1, err, str)
  ELSE CustomFormatter(i + 1, err, str)

\* ec.Formatter(i, err, &str)
CallFormatter(f, i, err, str) ==
  IF f = "default" THEN DefaultErrorFormatter(i, err, str)
  ELSE CustomFormatter(i, err, str)

\* the loop of (ec *ErrorCollection) Error(): for i, err := range ec.Errors,
\* from the zero-based index i on, with the accumulator str
RECURSIVE ErrorLoop(_, _, _, _)
ErrorLoop(f, errs, i, str) ==
  IF i >= Len(errs) THEN str
  ELSE ErrorLoop(f, errs, i + 1,
                 IF f # "nil" THEN CallFormatter(f, i, errs[i + 1], str) ELSE str)

\* IsNil as the plain test err == nil
IsNil_PlainTest(err, ents) == err = Nil

\* IsNil(err), reading the entries ents of the collections
IsNil(err, ents) ==
  IF err.kind = "*ErrorCollection"
  THEN IF Len(ents[err.ref]) = 0 THEN TRUE ELSE FALSE
  ELSE IF err = Nil THEN TRUE ELSE FALSE

\* ------------------------------------------------------ the callers' errors
\* The errors a caller may construct. Instants 1 and 2 are two readings of
\* the clock.
JE_a1 == New(5, "x", "y", <<"domainA">>, 1)
JE_a2 == New(5, "x", "y", <<"domainA">>, 2)
JE_pa == PtrTo(NewAndDisplayTime(5, "x", "y", <<"domainA">>, 1))
JE_b1 == New(5, "x", "y", <<>>, 1)
JE_c1 == New(6, "x", "y", <<"domainA">>, 1)
JE_d1 == New(5, "", "y", <<"domainA">>, 1)
JE_e1 == New(5, "x", "", <<"domainA">>, 1)
Gen_1 == GenericError("failed")
Gen_2 == GenericError("elf header corrupted")

Universe == {JE_a1, JE_a2, JE_pa, JE_b1, JE_c1, JE_d1, JE_e1, Gen_1, Gen_2}

\* the two errors held by the callers of one behaviour: JE_a1 with any other
\* error (one that differs from it in one field, in its timestamp, in being
\* held through a pointer, or in not being structured), the pointer with the
\* other timestamp, or the two generic errors
Pairs ==
  {{JE_a1, x} : x \in Universe \ {JE_a1}} \cup {{JE_a2, JE_pa}, {Gen_1, Gen_2}}

\* The structured errors of the specification SpecJE: every combination of a
\* code (zero, one digit, two digits, negative), an empty or non-empty label
\* and message, a domain list (none, an empty string, a name), a constructor
\* and an instant.
Codes == {0, 5, 12, 0 - 3}
Labels == {"", "bad_input"}
Messages == {"", "value must be positive"}
Domains == {<<>>, <<"">>, <<"domainA">>}
Instants == {1, 20}

JEs ==
  {New(c, e, m, d, n) :
     c \in Codes, e \in Labels, m \in Messages, d \in Domains, n \in Instants}
  \cup
  {NewAndDisplayTime(c, e, m, d, n) :
     c \in Codes, e \in Labels, m \in Messages, d \in Domains, n \in Instants}

\* the argument lists of AddErrors(errs ...error) over the candidates V, of
\* length n at most
RECURSIVE Batches(_, _)
Batches(V, n) ==
  IF n = 0 THEN {<<>>}
  ELSE Batches(V, n - 1) \cup
       {Append(b, v) : b \in {x \in Batches(V, n - 1) : Len(x) = n - 1}, v \in V}

\* ------------------------------------------------------------------ state
VARIABLES
  DuplicatationOptions,  \* [Colls -> Policies]   ec.DuplicatationOptions
  Errors,                \* [Colls -> Seq(error)] ec.Errors
  Formatter,             \* [Colls -> Formatters] ec.Formatter
  writer,                \* [Colls -> thread]     holder of ec.lock.Lock()
  readers,               \* [Colls -> SUBSET thread] holders of ec.lock.RLock()
  pc,                    \* [Threads -> position of the goroutine in its call]
  op,                    \* [Threads -> frame of the call in progress]
  held                   \* the errors the callers hold, fixed over a behaviour

vars == <<DuplicatationOptions, Errors, Formatter, writer, readers, pc, op, held>>

\* what a caller can pass where an error is expected
Candidates == held \cup {Nil}

\* The frame of a call: its name, receiver ec, argument (src: the collection
\* merged in; arg: the error given to IsNil; errs: the errors ranged over),
\* loop index i, the slice tmp loaded for the append, the result (str, res,
\* and m for a mapping), and before: the receiver's entries when the call
\* took the lock.
NoFrame ==
  [name |-> "", ec |-> 0, src |-> 0, arg |-> Nil, errs |-> <<>>, i |-> 0,
   tmp |-> <<>>, before |-> <<>>, str |-> "", res |-> FALSE, m |-> <<>>]

\* NewErrorCollection(dup...): empty entries, the default formatter, the
\* policy given (AllowDuplicates when none is)
NewErrorCollection(dup) ==
  [DuplicatationOptions |-> IF Len(dup) # 0 THEN dup[1] ELSE AllowDuplicates,
   Errors |-> <<>>,
   Formatter |-> "default"]

Constructed ==
  /\ \E d \in [Colls -> {<<>>} \cup {<<p>> : p \in Policies}] :
       /\ DuplicatationOptions = [c \in Colls |-> NewErrorCollection(d[c]).DuplicatationOptions]
       /\ Errors = [c \in Colls |-> NewErrorCollection(d[c]).Errors]
       /\ Formatter = [c \in Colls |-> NewErrorCollection(d[c]).Formatter]
  /\ writer = [c \in Colls |-> NoThread]
  /\ readers = [c \in Colls |-> {}]
  /\ pc = [t \in Threads |-> "idle"]
  /\ op = [t \in Threads |-> NoFrame]

\* the single caller holds one of the pairs of errors
Init == Constructed /\ held \in Pairs

\* the goroutines share three errors: two structured errors that differ only
\* by timestamp, and a generic one
InitConc == Constructed /\ held = {JE_a1, JE_a2, Gen_1}

\* the caller of Error() holds a structured and a generic error
InitRead == Constructed /\ held \in {{j, Gen_1} : j \in {JE_a1, JE_pa, JE_b1}}

\* the caller holds one structured error, by value or through a pointer
InitJE == Constructed /\ held \in {{j} : j \in JEs} \cup {{PtrTo(j)} : j \in JEs}

\* the caller holds a pointer to a structured error, and a generic error
InitAssign == Constructed /\ held = {JE_pa, Gen_1}

\* two goroutines share a structured and a generic error; collection 2 is
\* constructed as NewErrorCollection()
InitShared ==
  /\ Constructed
  /\ DuplicatationOptions[2] = AllowDuplicates
  /\ held = {JE_a1, Gen_1}

\* two goroutines share a generic error; each collection holds a generic
\* error from an earlier AddError, and collection 2 is constructed as
\* NewErrorCollection()
InitLive ==
  /\ \E d \in [Colls -> {<<>>} \cup {<<p>> : p \in Policies}] :
       /\ DuplicatationOptions = [c \in Colls |-> NewErrorCollection(d[c]).DuplicatationOptions]
       /\ Formatter = [c \in Colls |-> NewErrorCollection(d[c]).Formatter]
  /\ DuplicatationOptions[2] = AllowDuplicates
  /\ Errors = [c \in Colls |-> <<Gen_2>>]
  /\ writer = [c \in Colls |-> NoThread]
  /\ readers = [c \in Colls |-> {}]
  /\ pc = [t \in Threads |-> "idle"]
  /\ op = [t \in Threads |-> NoFrame]
  /\ held = {Gen_1}

\* the caller holds a structured and a generic error
InitFrame == Constructed /\ held = {JE_a1, Gen_1}

\* the caller holds two structured errors that differ by their timestamps,
\* or a structured and a generic error
InitSelf == Constructed /\ held \in {{JE_a1, JE_a2}, {JE_a1, Gen_1}}

\* ------------------------------------------------------------- sync.RWMutex
\* the goroutines whose Lock() on c has found readers inside and waits for
\* them to leave
Waiting(c) == {u \in Threads : pc[u] = "LockWait" /\ op[u].ec = c}

\* a lock that excludes nobody
CanLock_Always(c) == TRUE

\* a Lock() that waits for the readers only
CanLock_IgnoreWriter(c) == readers[c] = {}

\* a Lock() that does not wait for the readers
CanLock_IgnoreReaders(c) == writer[c] = NoThread

\* ec.lock.Lock() returns: no writer and no reader holds the lock
CanLock(c) == writer[c] = NoThread /\ readers[c] = {}

\* an RLock() that does not wait for the writer
CanRLock_Always(c) == TRUE

\* ec.lock.RLock() returns: no writer holds the lock and none waits for it
\* (sync.RWMutex lets no new reader in once a Lock() call is waiting)
CanRLock(c) == writer[c] = NoThread /\ Waiting(c) = {}

\* ------------------------------------------------------------------ calls
\* A goroutine starts a call. A call that can grow its receiver is started
\* only while the receiver has room (the bound MaxLen of the exploration).
NonNil(errs) == SelectSeq(errs, LAMBDA e : e # Nil)

Call_AddError(t, C) ==
  /\ pc[t] = "idle"
  /\ \E c \in C, err \in Candidates :
       /\ Len(Errors[c]) + Len(NonNil(<<err>>)) <= MaxLen
       /\ op' = [op EXCEPT ![t] = [NoFrame EXCEPT !.name = "AddError", !.ec = c,
                                                  !.errs = <<err>>]]
  /\ pc' = [pc EXCEPT ![t] = "Lock"]
  /\ UNCHANGED <<DuplicatationOptions, Errors, Formatter, writer, readers, held>>

Call_AddErrors(t, C) ==
  /\ pc[t] = "idle"
  /\ \E c \in C, errs \in Batches(Candidates, MaxBatch) :
       /\ Len(Errors[c]) + Len(NonNil(errs)) <= MaxLen
       /\ op' = [op EXCEPT ![t] = [NoFrame EXCEPT !.name = "AddErrors", !.ec = c,
                                                  !.errs = errs]]
  /\ pc' = [pc EXCEPT ![t] = "Lock"]
  /\ UNCHANGED <<DuplicatationOptions, Errors, Formatter, writer, readers, held>>

Call_AddErrorCollection(t, C) ==
  /\ pc[t] = "idle"
  /\ \E c \in C, errs \in C :
       /\ Len(Errors[c]) + Len(Errors[errs]) <= MaxLen
       /\ op' = [op EXCEPT ![t] = [NoFrame EXCEPT !.name = "AddErrorCollection",
                                                  !.ec = c, !.src = errs]]
  /\ pc' = [pc EXCEPT ![t] = "Lock"]
  /\ UNCHANGED <<DuplicatationOptions, Errors, Formatter, writer, readers, held>>

\* ec.AddErrorCollection(ec): the receiver is its own source
Call_AddErrorCollection_Self(t, C) ==
  /\ pc[t] = "idle"
  /\ \E c \in C :
       /\ Len(Errors[c]) <= MaxSelf
       /\ op' = [op EXCEPT ![t] = [NoFrame EXCEPT !.name = "AddErrorCollection",
                                                  !.ec = c, !.src = c]]
  /\ pc' = [pc EXCEPT ![t] = "Lock"]
  /\ UNCHANGED <<DuplicatationOptions, Errors, Formatter, writer, readers, held>>

\* Error() reads ec.Formatter before it takes the lock: with no formatter it
\* returns "" at once
Call_Error(t, C) ==
  /\ pc[t] = "idle"
  /\ \E c \in C :
       /\ op' = [op EXCEPT ![t] = [NoFrame EXCEPT !.name = "Error", !.ec = c]]
       /\ pc' = [pc EXCEPT ![t] = IF Formatter[c] = "nil" THEN "return" ELSE "RLock"]
  /\ UNCHANGED <<DuplicatationOptions, Errors, Formatter, writer, readers, held>>

\* IsNil(err) takes no lock: it is one read of len(v.Errors)
Call_IsNil(t, C) ==
  /\ pc[t] = "idle"
  /\ \E err \in Candidates \cup {CollectionError(c) : c \in C} :
       op' = [op EXCEPT ![t] = [NoFrame EXCEPT !.name = "IsNil", !.arg = err,
                                                !.res = IsNil(err, Errors)]]
  /\ pc' = [pc EXCEPT ![t] = "return"]
  /\ UNCHANGED <<DuplicatationOptions, Errors, Formatter, writer, readers, held>>

\* j.Render() and j.Error() of a structured error the caller holds: pure
\* functions of j, no lock
Call_Render(t) ==
  /\ pc[t] = "idle"
  /\ \E j \in held :
       /\ IsJE(j)
       /\ op' = [op EXCEPT ![t] = [NoFrame EXCEPT !.name = "Render", !.arg = j,
                                                  !.m = Render(j)]]
  /\ pc' = [pc EXCEPT ![t] = "return"]
  /\ UNCHANGED <<DuplicatationOptions, Errors, Formatter, writer, readers, held>>

Call_JE_Error(t) ==
  /\ pc[t] = "idle"
  /\ \E j \in held :
       /\ IsJE(j)
       /\ op' = [op EXCEPT ![t] = [NoFrame EXCEPT !.name = "JE.Error", !.arg = j,
                                                  !.str = JE_Error(j)]]
  /\ pc' = [pc EXCEPT ![t] = "return"]
  /\ UNCHANGED <<DuplicatationOptions, Errors, Formatter, writer, readers, held>>

\* --------------------------------------------------- the mutating calls
\* after the loop body for errs[i]: the next element, or the deferred Unlock
Advance(f) == IF f.i + 1 > Len(f.errs) THEN "Unlock" ELSE "addError"

\* the source's entries ranged over from the last to the first
RangeExpr_Reversed(f) ==
  IF f.name = "AddErrorCollection"
  THEN [k \in 1 .. Len(Errors[f.src]) |-> Errors[f.src][Len(Errors[f.src]) + 1 - k]]
  ELSE f.errs

\* a merge that does nothing when the source is the receiver
RangeExpr_SkipSelf(f) ==
  IF f.name = "AddErrorCollection"
  THEN IF f.src = f.ec THEN <<>> ELSE Errors[f.src]
  ELSE f.errs

\* the slice a mutating call ranges over: its own argument list, or
\* errs.Errors of the source collection, read without the source's lock
RangeExpr(f) ==
  IF f.name = "AddErrorCollection" THEN Errors[f.src] ELSE f.errs

\* a merge deciding by the policy of the source
PolicyOf_Source(f) ==
  DuplicatationOptions[IF f.name = "AddErrorCollection" THEN f.src ELSE f.ec]

\* the policy addError consults: ec.DuplicatationOptions of the receiver
PolicyOf(f) == DuplicatationOptions[f.ec]

\* the call of goroutine t returns: the goroutine goes on to `after` ("idle":
\* it may call again and the frame is dropped; "done": it has ended, and its
\* frame stays as the record of its call)
Returned(t, after) ==
  /\ pc' = [pc EXCEPT ![t] = after]
  /\ op' = IF after = "idle" THEN [op EXCEPT ![t] = NoFrame] ELSE op

\* the goroutines other than t whose mutating call on c has taken c's lock
\* (and may have returned since)
OtherWriters(t, c) ==
  {u \in Threads \ {t} :
     /\ op[u].ec = c
     /\ op[u].name \in {"AddError", "AddErrors", "AddErrorCollection"}
     /\ pc[u] \in {"addError", "load", "append", "Unlock", "done"}}

\* What the range expression of goroutine t can evaluate to. The merge reads
\* errs.Errors of another collection holding only the receiver's lock: it
\* is a data race with the calls of other goroutines that write that field
\* under the source's lock, nothing orders the read after their stores, and
\* the slice read is any value the field has had since the first of these
\* calls took the lock, a prefix of its present value. (An element not yet
\* visible in a slice of the new length reads as nil, which addError drops:
\* the same result as the shorter prefix.)
RangeReads(t) ==
  LET f == op[t]
      now == RangeExpr(f)
      ws == OtherWriters(t, f.src)
      oldest == CHOOSE n \in {Len(op[u].before) : u \in ws} :
                  \A u \in ws : n <= Len(op[u].before)
  IN  IF f.name = "AddErrorCollection" /\ f.src # f.ec /\ ws # {}
      THEN {SubSeq(now, 1, k) : k \in oldest .. Len(now)}
      ELSE {now}

\* ec.lock.Lock() finding readers inside: the call announces itself, which
\* keeps new readers out, and waits. One Lock() call at a time gets this far.
LockWait(t) ==
  /\ pc[t] = "Lock"
  /\ writer[op[t].ec] = NoThread
  /\ Waiting(op[t].ec) = {}
  /\ readers[op[t].ec] # {}
  /\ pc' = [pc EXCEPT ![t] = "LockWait"]
  /\ UNCHANGED <<DuplicatationOptions, Errors, Formatter, writer, readers, op, held>>

\* a merge that also takes the lock of its source
Lock_SourceToo(t) ==
  /\ pc[t] \in {"Lock", "LockWait"}
  /\ Waiting(op[t].ec) \subseteq {t}
  /\ CanLock(op[t].ec)
  /\ op[t].name = "AddErrorCollection" => CanLock(op[t].src)
  /\ writer' = [c \in Colls |->
                  IF c = op[t].ec \/ (op[t].name = "AddErrorCollection" /\ c = op[t].src)
                  THEN t ELSE writer[c]]
  /\ \E errs \in RangeReads(t) :
         /\ op' = [op EXCEPT ![t] = [@ EXCEPT !.errs = errs, !.i = 1,
                                              !.before = Errors[op[t].ec]]]
         /\ pc' = [pc EXCEPT ![t] = IF Len(errs) = 0 THEN "Unlock" ELSE "addError"]
  /\ UNCHANGED <<DuplicatationOptions, Errors, Formatter, readers, held>>

\* ec.lock.Lock() of AddError / AddErrors / AddErrorCollection, and the
\* evaluation of the loop's range expression
Lock(t) ==
  /\ pc[t] \in {"Lock", "LockWait"}
  /\ Waiting(op[t].ec) \subseteq {t}
  /\ CanLock(op[t].ec)
  /\ writer' = [writer EXCEPT ![op[t].ec] = t]
  /\ \E errs \in RangeReads(t) :
         /\ op' = [op EXCEPT ![t] = [@ EXCEPT !.errs = errs, !.i = 1,
                                              !.before = Errors[op[t].ec]]]
         /\ pc' = [pc EXCEPT ![t] = IF Len(errs) = 0 THEN "Unlock" ELSE "addError"]
  /\ UNCHANGED <<DuplicatationOptions, Errors, Formatter, readers, held>>

\* addError scanning the entries the call found at its Lock
addError_ScanAtLock(t) ==
  /\ pc[t] = "addError"
  /\ LET f == op[t]
         err == f.errs[f.i]
     IN  IF Rejects(PolicyOf(f), f.before, err)
         THEN /\ op' = [op EXCEPT ![t] = [@ EXCEPT !.i = f.i + 1]]
              /\ pc' = [pc EXCEPT ![t] = Advance(f)]
         ELSE /\ op' = op
              /\ pc' = [pc EXCEPT ![t] = "load"]
  /\ UNCHANGED <<DuplicatationOptions, Errors, Formatter, writer, readers, held>>

\* addError up to its append: the nil check and the dedup scan
addError(t) ==
  /\ pc[t] = "addError"
  /\ LET f == op[t]
         err == f.errs[f.i]
     IN  IF Rejects(PolicyOf(f), Errors[f.ec], err)
         THEN /\ op' = [op EXCEPT ![t] = [@ EXCEPT !.i = f.i + 1]]
              /\ pc' = [pc EXCEPT ![t] = Advance(f)]
         ELSE /\ op' = op
              /\ pc' = [pc EXCEPT ![t] = "load"]
  /\ UNCHANGED <<DuplicatationOptions, Errors, Formatter, writer, readers, held>>

\* ec.Errors = append(ec.Errors, err): the load of ec.Errors for the call of
\* append
load(t) ==
  /\ pc[t] = "load"
  /\ op' = [op EXCEPT ![t] = [@ EXCEPT !.tmp = Errors[op[t].ec]]]
  /\ pc' = [pc EXCEPT ![t] = "append"]
  /\ UNCHANGED <<DuplicatationOptions, Errors, Formatter, writer, readers, held>>

\* a store of the slice with the new error put first
append_Prepend(t) ==
  /\ pc[t] = "append"
  /\ LET f == op[t]
     IN  /\ Errors' = [Errors EXCEPT ![f.ec] = <<f.errs[f.i]>> \o f.tmp]
         /\ op' = [op EXCEPT ![t] = [@ EXCEPT !.i = f.i + 1, !.tmp = <<>>]]
         /\ pc' = [pc EXCEPT ![t] = Advance(f)]
  /\ UNCHANGED <<DuplicatationOptions, Formatter, writer, readers, held>>

\* ec.Errors = append(ec.Errors, err): the store of the grown slice
append(t) ==
  /\ pc[t] = "append"
  /\ LET f == op[t]
     IN  /\ Errors' = [Errors EXCEPT ![f.ec] = Append(f.tmp, f.errs[f.i])]
         /\ op' = [op EXCEPT ![t] = [@ EXCEPT !.i = f.i + 1, !.tmp = <<>>]]
         /\ pc' = [pc EXCEPT ![t] = Advance(f)]
  /\ UNCHANGED <<DuplicatationOptions, Formatter, writer, readers, held>>

\* a return that leaves the lock held
Unlock_Forgotten(t, after) ==
  /\ pc[t] = "Unlock"
  /\ Returned(t, after)
  /\ UNCHANGED <<DuplicatationOptions, Errors, Formatter, writer, readers, held>>

\* defer ec.lock.Unlock(), and the return
Unlock(t, after) ==
  /\ pc[t] = "Unlock"
  /\ writer' = [writer EXCEPT ![op[t].ec] = NoThread]
  /\ Returned(t, after)
  /\ UNCHANGED <<DuplicatationOptions, Errors, Formatter, readers, held>>

\* ------------------------------------------------------------------ Error()
RLock(t) ==
  /\ pc[t] = "RLock"
  /\ CanRLock(op[t].ec)
  /\ readers' = [readers EXCEPT ![op[t].ec] = @ \cup {t}]
  /\ op' = [op EXCEPT ![t] = [@ EXCEPT !.before = Errors[op[t].ec]]]
  /\ pc' = [pc EXCEPT ![t] = "format"]
  /\ UNCHANGED <<DuplicatationOptions, Errors, Formatter, writer, held>>

\* an Error() that empties the collection it has formatted
Format_Clearing(t) ==
  /\ pc[t] = "format"
  /\ op' = [op EXCEPT ![t] =
              [@ EXCEPT !.str = ErrorLoop(Formatter[op[t].ec], Errors[op[t].ec], 0, "")]]
  /\ Errors' = [Errors EXCEPT ![op[t].ec] = <<>>]
  /\ pc' = [pc EXCEPT ![t] = "RUnlock"]
  /\ UNCHANGED <<DuplicatationOptions, Formatter, writer, readers, held>>

\* str := ""; the loop over ec.Errors
Format(t) ==
  /\ pc[t] = "format"
  /\ op' = [op EXCEPT ![t] =
              [@ EXCEPT !.str = ErrorLoop(Formatter[op[t].ec], Errors[op[t].ec], 0, "")]]
  /\ pc' = [pc EXCEPT ![t] = "RUnlock"]
  /\ UNCHANGED <<DuplicatationOptions, Errors, Formatter, writer, readers, held>>

\* defer ec.lock.RUnlock(), and return str
RUnlock(t, after) ==
  /\ pc[t] = "RUnlock"
  /\ readers' = [readers EXCEPT ![op[t].ec] = @ \ {t}]
  /\ Returned(t, after)
  /\ UNCHANGED <<DuplicatationOptions, Errors, Formatter, writer, held>>

\* the return of a call that holds no lock (IsNil; Error() with no formatter)
Return(t, after) ==
  /\ pc[t] = "return"
  /\ Returned(t, after)
  /\ UNCHANGED <<DuplicatationOptions, Errors, Formatter, writer, readers, held>>

\* The owner of a collection assigns its exported Formatter field. It does so
\* while no call is in progress: the field is not guarded by the lock.
SetFormatter(C) ==
  /\ \A t \in Threads : pc[t] = "idle"
  /\ \E c \in C, f \in Formatters :
       /\ f # Formatter[c]
       /\ Formatter' = [Formatter EXCEPT ![c] = f]
  /\ UNCHANGED <<DuplicatationOptions, Errors, writer, readers, pc, op, held>>

\* The fields Code, Domain and DisplayTime of JE are exported: the caller
\* that holds a structured error can assign them. Assigned through a pointer,
\* the struct the entries of the collections point to is the one that
\* changes; assigned on a value, only the caller's copy does.
ExportedFields == {"Code", "Domain", "DisplayTime"}

AssignableValues(fld) ==
  CASE fld = "Code" -> {5, 6}
    [] fld = "Domain" -> {"", "domainA"}
    [] fld = "DisplayTime" -> BOOLEAN

\* the entries errs after the struct behind the pointer p has become q
RECURSIVE Pointee(_, _, _)
Pointee(errs, p, q) ==
  IF errs = <<>> THEN <<>>
  ELSE Append(Pointee(SubSeq(errs, 1, Len(errs) - 1), p, q),
              IF errs[Len(errs)] = p THEN q ELSE errs[Len(errs)])

Assign ==
  /\ \A t \in Threads : pc[t] = "idle"
  /\ \E p \in held, fld \in ExportedFields :
       \E v \in AssignableValues(fld) :
         LET q == [p EXCEPT ![fld] = v] IN
         /\ IsJE(p)
         /\ q \notin held
         /\ held' = (held \ {p}) \cup {q}
         /\ Errors' = IF p.kind = "*JE"
                      THEN [c \in Colls |-> Pointee(Errors[c], p, q)]
                      ELSE Errors
  /\ UNCHANGED <<DuplicatationOptions, Formatter, writer, readers, pc, op>>

\* ---------------------------------------------------------- specifications
\* One caller, goroutine 1, that adds to and merges the two collections,
\* call after call.
Next ==
  \/ Call_AddError(1, Colls)
  \/ Call_AddErrors(1, Colls)
  \/ Call_AddErrorCollection(1, Colls)
  \/ Lock(1)
  \/ addError(1)
  \/ load(1)
  \/ append(1)
  \/ Unlock(1, "idle")

Spec == Init /\ [][Next]_vars

\* One caller that sets the formatter of collection 1, adds to it, asks for
\* its combined string and tests errors with IsNil.
NextRead ==
  \/ SetFormatter({1})
  \/ Call_AddError(1, {1})
  \/ Call_Error(1, {1})
  \/ Call_IsNil(1, {1})
  \/ Lock(1)
  \/ addError(1)
  \/ load(1)
  \/ append(1)
  \/ Unlock(1, "idle")
  \/ RLock(1)
  \/ Format(1)
  \/ RUnlock(1, "idle")
  \/ Return(1, "idle")

SpecRead == InitRead /\ [][NextRead]_vars

\* NumThreads goroutines; each calls AddError once on one of the two
\* collections and ends.
NextConc ==
  \E t \in Threads :
    \/ Call_AddError(t, Colls)
    \/ Lock(t)
    \/ addError(t)
    \/ load(t)
    \/ append(t)
    \/ Unlock(t, "done")

SpecConc == InitConc /\ [][NextConc]_vars

\* One caller that renders the structured error it holds and asks for its
\* string.
NextJE ==
  \/ Call_Render(1)
  \/ Call_JE_Error(1)
  \/ Return(1, "idle")

SpecJE == InitJE /\ [][NextJE]_vars

\* One caller that holds a structured error through a pointer, adds it to
\* collection 1 and assigns its exported fields.
NextAssign ==
  \/ Assign
  \/ Call_AddError(1, {1})
  \/ Lock(1)
  \/ addError(1)
  \/ load(1)
  \/ append(1)
  \/ Unlock(1, "idle")

SpecAssign == InitAssign /\ [][NextAssign]_vars

\* Two goroutines; each makes one call on one of the two collections: an
\* add, a batch, a merge or Error(), and ends.
NextShared ==
  \E t \in Sharers :
    \/ Call_AddError(t, Colls)
    \/ Call_AddErrors(t, Colls)
    \/ Call_AddErrorCollection(t, Colls)
    \/ Call_Error(t, Colls)
    \/ LockWait(t)
    \/ Lock(t)
    \/ addError(t)
    \/ load(t)
    \/ append(t)
    \/ Unlock(t, "done")
    \/ RLock(t)
    \/ Format(t)
    \/ RUnlock(t, "done")

SpecShared == InitShared /\ [][NextShared]_vars

\* a step of goroutine t inside its call
Step(t) ==
  \/ LockWait(t)
  \/ Lock(t)
  \/ addError(t)
  \/ load(t)
  \/ append(t)
  \/ Unlock(t, "done")
  \/ RLock(t)
  \/ Format(t)
  \/ RUnlock(t, "done")

\* The two goroutines under the scheduler: a goroutine that can take a step
\* of its call is not left waiting forever. Whether a goroutine calls at all
\* is up to it.
SpecLive == InitLive /\ [][NextShared]_vars /\ \A t \in Sharers : WF_vars(Step(t))

\* One caller that makes every call of the package on the two collections,
\* call after call, and sets the formatter of collection 1 between calls.
NextFrame ==
  \/ SetFormatter({1})
  \/ Call_AddError(1, Colls)
  \/ Call_AddErrors(1, {1})
  \/ Call_AddErrorCollection(1, Colls)
  \/ Call_Error(1, Colls)
  \/ Call_IsNil(1, Colls)
  \/ Lock(1)
  \/ addError(1)
  \/ load(1)
  \/ append(1)
  \/ Unlock(1, "idle")
  \/ RLock(1)
  \/ Format(1)
  \/ RUnlock(1, "idle")
  \/ Return(1, "idle")

SpecFrame == InitFrame /\ [][NextFrame]_vars

\* One caller that adds to collection 1 and merges it into itself, call
\* after call.
NextSelf ==
  \/ Call_AddError(1, {1})
  \/ Call_AddErrors(1, {1})
  \/ Call_AddErrorCollection_Self(1, {1})
  \/ Lock(1)
  \/ addError(1)
  \/ load(1)
  \/ append(1)
  \/ Unlock(1, "idle")

SpecSelf == InitSelf /\ [][NextSelf]_vars

\* ================================================================ properties
\* A mutating call is observed when its loop has ended and it still holds the
\* lock (pc = "Unlock"): op[t].before are the receiver's entries at the Lock,
\* op[t].errs the errors it ranged over.
Structured(v) == v.kind = "JE" \/ v.kind = "*JE"

SameFourFields(x, y) ==
  /\ x.Code = y.Code
  /\ x.Domain = y.Domain
  /\ x.error = y.error
  /\ x.message = y.message

Finished(t, name) == pc[t] = "Unlock" /\ op[t].name = name

Rejecting == {RejectDuplicatesIgnoreTimestamp, RejectDuplicates}

\* ---------------------------------------------------------------------- C1
\* the scenario of C1 on collection c
C1_Scenario(c) ==
  /\ DuplicatationOptions[c] = AllowDuplicates
  /\ \A t \in Threads :
       /\ pc[t] = "done"
       /\ op[t].ec = c
       /\ op[t].errs[1] # Nil
  /\ \A t, u \in Threads : t # u => op[t].errs[1] # op[u].errs[1]

\* C1: when all NumThreads goroutines have called AddError once on the same
\* AllowDuplicates collection with pairwise distinct non-nil payloads and have
\* returned, the collection holds exactly NumThreads entries and each payload
\* exactly once, whatever the interleaving.
C1_NoLostUpdate ==
  \A c \in Colls :
    C1_Scenario(c) =>
      /\ Len(Errors[c]) = NumThreads
      /\ \A t \in Threads :
           Cardinality({i \in 1 .. Len(Errors[c]) : Errors[c][i] = op[t].errs[1]}) = 1

C1_Witness ==
  \E c \in Colls : C1_Scenario(c) /\ Len(Errors[c]) = NumThreads

\* ---------------------------------------------------------------------- C2
\* C2: under RejectDuplicatesIgnoreTimestamp, an AddError of a structured
\* error that agrees in code, domain, label and message with a structured
\* entry leaves the entries as they were, whatever the two timestamps; added
\* to a one-entry collection whose entry differs only by timestamp, the size
\* stays 1.
C2_IgnoreTimestamp ==
  \A t \in Threads :
    LET f == op[t] IN
    ( /\ Finished(t, "AddError")
      /\ DuplicatationOptions[f.ec] = RejectDuplicatesIgnoreTimestamp
      /\ Structured(f.errs[1])
      /\ \E i \in 1 .. Len(f.before) :
           Structured(f.before[i]) /\ SameFourFields(f.before[i], f.errs[1]) )
    => Errors[f.ec] = f.before

C2_Witness ==
  \E t \in Threads :
    /\ Finished(t, "AddError")
    /\ DuplicatationOptions[op[t].ec] = RejectDuplicatesIgnoreTimestamp
    /\ op[t].before = <<JE_a1>>
    /\ op[t].errs = <<JE_a2>>
    /\ Len(Errors[op[t].ec]) = 1

\* ---------------------------------------------------------------------- C3
\* C3: under RejectDuplicates, an AddError of a structured error is discarded
\* exactly when a structured entry agrees with it in code, domain, label,
\* message and timestamp; otherwise (also when only the timestamps differ) it
\* becomes the new last entry.
C3_Strict ==
  \A t \in Threads :
    LET f == op[t] IN
    ( /\ Finished(t, "AddError")
      /\ DuplicatationOptions[f.ec] = RejectDuplicates
      /\ Structured(f.errs[1]) )
    => IF \E i \in 1 .. Len(f.before) :
            /\ Structured(f.before[i])
            /\ SameFourFields(f.before[i], f.errs[1])
            /\ f.before[i].time = f.errs[1].time
       THEN Errors[f.ec] = f.before
       ELSE Errors[f.ec] = Append(f.before, f.errs[1])

\* the entry with the other timestamp was appended earlier (size 2), and the
\* same error added again is discarded
C3_Witness ==
  \E t \in Threads :
    /\ Finished(t, "AddError")
    /\ DuplicatationOptions[op[t].ec] = RejectDuplicates
    /\ op[t].before = <<JE_a1, JE_a2>>
    /\ op[t].errs = <<JE_a1>>
    /\ Errors[op[t].ec] = <<JE_a1, JE_a2>>

\* ---------------------------------------------------------------------- C4
\* C4: under AllowDuplicates every add call (AddError, AddErrors,
\* AddErrorCollection) extends the entries by exactly the non-nil errors it was
\* given, in order, repeated ones included; so the size grows by their number.
C4_AllowKeepsAll ==
  \A t \in Threads :
    LET f == op[t] IN
    ( /\ pc[t] = "Unlock"
      /\ DuplicatationOptions[f.ec] = AllowDuplicates )
    => /\ Errors[f.ec] = f.before \o SelectSeq(f.errs, LAMBDA e : e # Nil)
       /\ Len(Errors[f.ec]) =
            Len(f.before) + Cardinality({k \in 1 .. Len(f.errs) : f.errs[k] # Nil})

C4_Witness ==
  \E t \in Threads :
    /\ Finished(t, "AddError")
    /\ DuplicatationOptions[op[t].ec] = AllowDuplicates
    /\ op[t].before = <<JE_a1>>
    /\ op[t].errs = <<JE_a1>>
    /\ Errors[op[t].ec] = <<JE_a1, JE_a1>>

\* ---------------------------------------------------------------------- C5
\* C5: under a rejecting policy, an AddError of a non-nil error that is not
\* structured is discarded exactly when an entry is deeply equal to it, and
\* is appended otherwise; a structured error is never a duplicate of an entry
\* that is not structured.
C5_GenericDeepEqual ==
  \A t \in Threads :
    LET f == op[t] IN
    ( /\ Finished(t, "AddError")
      /\ DuplicatationOptions[f.ec] \in Rejecting
      /\ f.errs[1] # Nil )
    => /\ ~Structured(f.errs[1]) =>
            IF \E i \in 1 .. Len(f.before) : f.before[i] = f.errs[1]
            THEN Errors[f.ec] = f.before
            ELSE Errors[f.ec] = Append(f.before, f.errs[1])
       /\ ( Structured(f.errs[1])
            /\ \A i \in 1 .. Len(f.before) : ~Structured(f.before[i]) )
          => Errors[f.ec] = Append(f.before, f.errs[1])

\* the structurally different generic error was appended earlier (size 2),
\* and an identical one added again is discarded
C5_Witness ==
  \E t \in Threads :
    /\ Finished(t, "AddError")
    /\ DuplicatationOptions[op[t].ec] \in Rejecting
    /\ op[t].before = <<Gen_1, Gen_2>>
    /\ op[t].errs = <<Gen_1>>
    /\ Errors[op[t].ec] = <<Gen_1, Gen_2>>

\* ---------------------------------------------------------------------- C6
\* C6: no collection ever holds a nil entry; no append is made for a nil
\* candidate; AddError(nil) returns with the entries as they were, under every
\* policy; and an AddErrors batch grows the collection by no more than the
\* number of its non-nil elements.
C6_NilIgnored ==
  /\ \A c \in Colls : \A i \in 1 .. Len(Errors[c]) : Errors[c][i] # Nil
  /\ \A t \in Threads :
       LET f == op[t] IN
       /\ pc[t] = "append" => f.errs[f.i] # Nil
       /\ (Finished(t, "AddError") /\ f.errs = <<Nil>>) => Errors[f.ec] = f.before
       /\ Finished(t, "AddErrors") =>
            /\ Len(Errors[f.ec]) <=
                 Len(f.before) + Cardinality({k \in 1 .. Len(f.errs) : f.errs[k] # Nil})
            /\ (\A k \in 1 .. Len(f.errs) : f.errs[k] = Nil) => Errors[f.ec] = f.before

C6_Witness ==
  \E t \in Threads :
    /\ Finished(t, "AddErrors")
    /\ DuplicatationOptions[op[t].ec] \in Rejecting
    /\ op[t].errs = <<Nil, Gen_1>>
    /\ op[t].before = <<JE_a1>>
    /\ Errors[op[t].ec] = <<JE_a1, Gen_1>>

\* ---------------------------------------------------------------------- C7
\* C7: IsNil(err) is true exactly when err is nil or err is a collection
\* with no entries, and false for every other error; a collection as
\* constructed is empty for IsNil, and is not as soon as it holds an entry.
C7_IsNil ==
  /\ \A t \in Threads :
       (pc[t] = "return" /\ op[t].name = "IsNil") =>
          op[t].res = ( \/ op[t].arg = Nil
                        \/ /\ op[t].arg.kind = "*ErrorCollection"
                           /\ Len(Errors[op[t].arg.ref]) = 0 )
  /\ \A c \in Colls : IsNil(CollectionError(c), Errors) = (Errors[c] = <<>>)
  /\ \A e \in held : ~IsNil(e, Errors)

C7_Witness ==
  \E t \in Threads :
    /\ pc[t] = "return"
    /\ op[t].name = "IsNil"
    /\ op[t].arg = CollectionError(1)
    /\ Len(Errors[1]) = 1
    /\ op[t].res = FALSE

\* ---------------------------------------------------------------------- C8
\* the duplicate test and the merge the policy dup prescribes
DuplicateUnder(dup, x, y) ==
  IF Structured(x) /\ Structured(y)
  THEN SameFourFields(x, y) /\ (dup = RejectDuplicates => x.time = y.time)
  ELSE x = y

RECURSIVE MergedUnder(_, _, _)
MergedUnder(dup, acc, rest) ==
  IF rest = <<>> THEN acc
  ELSE MergedUnder(dup,
         IF /\ dup \in Rejecting
            /\ \E i \in 1 .. Len(acc) : DuplicateUnder(dup, acc[i], Head(rest))
         THEN acc ELSE Append(acc, Head(rest)),
         Tail(rest))

\* C8: AddErrorCollection keeps or discards each entry of the source by the
\* receiver's policy, whatever the source's policy is: what the receiver holds
\* at the end is its former entries extended, entry by entry of the source, by
\* the entries that are no duplicate under the receiver's policy.
C8_ReceiverPolicy ==
  \A t \in Threads :
    LET f == op[t] IN
    (Finished(t, "AddErrorCollection") /\ f.src # f.ec) =>
      /\ f.errs = Errors[f.src]
      /\ Errors[f.ec] = MergedUnder(DuplicatationOptions[f.ec], f.before, f.errs)

\* a source that allows duplicates and holds two, merged into an empty
\* receiver that ignores timestamps
C8_Witness ==
  \E t \in Threads :
    /\ Finished(t, "AddErrorCollection")
    /\ op[t].src # op[t].ec
    /\ DuplicatationOptions[op[t].src] = AllowDuplicates
    /\ DuplicatationOptions[op[t].ec] = RejectDuplicatesIgnoreTimestamp
    /\ op[t].before = <<>>
    /\ Errors[op[t].src] = <<JE_a1, JE_a2, JE_a1>>
    /\ Errors[op[t].ec] = <<JE_a1>>

\* ---------------------------------------------------------------------- C9
\* C9: a merge into an AllowDuplicates receiver from another collection ends
\* with the receiver holding its former entries followed by the source's
\* entries in the source's order.
C9_MergeAppendsInOrder ==
  \A t \in Threads :
    LET f == op[t] IN
    ( /\ Finished(t, "AddErrorCollection")
      /\ f.src # f.ec
      /\ DuplicatationOptions[f.ec] = AllowDuplicates )
    => /\ Errors[f.ec] = f.before \o Errors[f.src]
       /\ Len(Errors[f.ec]) = Len(f.before) + Len(Errors[f.src])

\* a source of three entries merged into an empty receiver
C9_Witness ==
  \E t \in Threads :
    /\ Finished(t, "AddErrorCollection")
    /\ op[t].src # op[t].ec
    /\ DuplicatationOptions[op[t].ec] = AllowDuplicates
    /\ op[t].before = <<>>
    /\ Errors[op[t].src] = <<JE_a1, Gen_1, JE_a1>>
    /\ Errors[op[t].ec] = <<JE_a1, Gen_1, JE_a1>>

\* --------------------------------------------------------------------- C10
\* the strings the two formatters build for the entries errs
RECURSIVE Lines(_)
Lines(errs) ==
  IF errs = <<>> THEN ""
  ELSE Lines(SubSeq(errs, 1, Len(errs) - 1))
         \o "\n" \o Itoa(Len(errs) - 1) \o ":" \o ErrorString(errs[Len(errs)])

RECURSIVE Items(_)
Items(errs) ==
  IF errs = <<>> THEN ""
  ELSE Items(SubSeq(errs, 1, Len(errs) - 1))
         \o "<" \o Itoa(Len(errs) - 1) \o "|" \o ErrorString(errs[Len(errs)]) \o ">"

\* C10: with a formatter set, the string Error() is about to return holds one
\* item per entry, in insertion order, the item of the k-th entry carrying the
\* index k - 1: with the default formatter a line break, the index, a colon
\* and the entry's own string.
C10_ErrorString ==
  \A t \in Threads :
    LET f == op[t] IN
    (pc[t] = "RUnlock" /\ f.name = "Error") =>
      /\ Formatter[f.ec] # "nil"
      /\ Formatter[f.ec] = "default" => f.str = Lines(Errors[f.ec])
      /\ Formatter[f.ec] = "custom" => f.str = Items(Errors[f.ec])

C10_Witness ==
  \E t \in Threads :
    /\ pc[t] = "RUnlock"
    /\ op[t].name = "Error"
    /\ Formatter[op[t].ec] = "default"
    /\ Errors[op[t].ec] = <<JE_a1, Gen_1>>
    /\ op[t].str = "\n0:[code]: 5 [error]: x [message]: y [domain]: domainA\n1:failed"

\* --------------------------------------------------------------------- C11
\* the decimal text of the integers the structured errors carry
Decimal(n) ==
  CASE n = 0 -> "0"
    [] n = 1 -> "1"
    [] n = 5 -> "5"
    [] n = 12 -> "12"
    [] n = 20 -> "20"
    [] n = 0 - 3 -> "-3"

\* C11: the mapping Render() returns for a structured error has exactly the
\* keys "code", "error" when the label is non-empty and "message" when the
\* message is non-empty; "code" maps to the decimal text of the code, the
\* other keys to the label and the message; "domain" and "time" are never
\* keys, whatever the domain and DisplayTime are.
C11_Render ==
  \A t \in Threads :
    LET f == op[t]
        j == f.arg
    IN  (pc[t] = "return" /\ f.name = "Render") =>
          /\ DOMAIN f.m = {"code"} \cup (IF j.error # "" THEN {"error"} ELSE {})
                                   \cup (IF j.message # "" THEN {"message"} ELSE {})
          /\ f.m["code"] = Decimal(j.Code)
          /\ j.error # "" => f.m["error"] = j.error
          /\ j.message # "" => f.m["message"] = j.message
          /\ "domain" \notin DOMAIN f.m
          /\ "time" \notin DOMAIN f.m

\* an error with a domain and a displayed time, rendered with its three keys
C11_Witness ==
  \E t \in Threads :
    /\ pc[t] = "return"
    /\ op[t].name = "Render"
    /\ op[t].arg.Domain = "domainA"
    /\ op[t].arg.DisplayTime
    /\ op[t].m = [code |-> "12", error |-> "bad_input",
                  message |-> "value must be positive"]

\* --------------------------------------------------------------------- C12
\* the fields of j that its string shows, in the order code, label, message,
\* domain, time, each as "[name]: value"
Shown(j) ==
  SelectSeq(<< <<TRUE, "[code]: " \o Decimal(j.Code)>>,
               <<j.error # "", "[error]: " \o j.error>>,
               <<j.message # "", "[message]: " \o j.message>>,
               <<j.Domain # "", "[domain]: " \o j.Domain>>,
               <<j.DisplayTime, "[time]: " \o Decimal(j.time)>> >>,
            LAMBDA p : p[1])

RECURSIVE SpaceSeparated(_)
SpaceSeparated(parts) ==
  IF Len(parts) = 1 THEN parts[1][2]
  ELSE SpaceSeparated(SubSeq(parts, 1, Len(parts) - 1)) \o " " \o parts[Len(parts)][2]

\* C12: the string of a structured error is its shown fields separated by
\* single spaces, in the fixed order code, label, message, domain, time: the
\* code is always shown and first; the label, message and domain are shown
\* exactly when non-empty; the time is shown, last, exactly when DisplayTime
\* is set.
C12_ToString ==
  \A t \in Threads :
    LET f == op[t] IN
    (pc[t] = "return" /\ f.name = "JE.Error") =>
      f.str = SpaceSeparated(Shown(f.arg))

C12_Witness ==
  \E t \in Threads :
    /\ pc[t] = "return"
    /\ op[t].name = "JE.Error"
    /\ op[t].str = "[code]: -3 [error]: bad_input [message]: value must be positive [domain]: domainA [time]: 20"

\* --------------------------------------------------------------------- C13
\* C13: the fields of a structured error never change once it is constructed:
\* in every step, every entry a collection holds keeps its code, label,
\* message, domain, creation time and DisplayTime, so that it compares the
\* same in every later duplicate scan.
C13_Immutable ==
  [][\A c \in Colls : \A i \in 1 .. Len(Errors[c]) :
        i <= Len(Errors'[c]) => Errors'[c][i] = Errors[c][i]]_vars

\* --------------------------------------------------------------------- C14
\* goroutine t is inside the critical section of a mutating call on c
Writing(t, c) == pc[t] \in {"addError", "load", "append", "Unlock"} /\ op[t].ec = c

\* goroutine t is inside Error() on c, reading the entries
Reading(t, c) == pc[t] \in {"format", "RUnlock"} /\ op[t].ec = c

\* C14: on each collection at most one mutating call is inside its critical
\* section, and while one is, no Error() call is reading; a mutating call
\* holds the write lock from before its first scan until after its last
\* append, and an Error() call the read lock while it reads.
C14_Exclusion ==
  \A c \in Colls :
    /\ \A t, u \in Threads : (Writing(t, c) /\ Writing(u, c)) => t = u
    /\ \A t, u \in Threads : ~(Writing(t, c) /\ Reading(u, c))
    /\ \A t \in Threads : Writing(t, c) => writer[c] = t
    /\ \A t \in Threads : Reading(t, c) => (t \in readers[c] /\ writer[c] = NoThread)

\* two Error() calls read the same collection at the same time while a batch
\* waits for the lock
C14_Witness ==
  \E c \in Colls : \E t, u \in Threads :
    /\ t # u
    /\ Reading(t, c)
    /\ Reading(u, c)

\* --------------------------------------------------------------------- C15
IsPrefix(x, y) == Len(x) <= Len(y) /\ SubSeq(y, 1, Len(x)) = x

\* what the batch of goroutine u leaves in its receiver: the entries at its
\* Lock followed by the errors of the batch its policy accepts
BatchResult(u) ==
  MergedUnder(DuplicatationOptions[op[u].ec], op[u].before, NonNil(op[u].errs))

\* C15: an AddErrors batch is atomic for the other calls on its collection.
\* When an Error() call has read the entries, every batch on that collection
\* has either not taken the lock yet or has returned, and then all it accepted
\* is in what Error() read; and when a batch ends, the collection holds the
\* entries it held at the batch's Lock followed by the accepted errors of the
\* batch, with no entry of another call among them.
C15_BatchAtomic ==
  \A u \in Threads :
    op[u].name = "AddErrors" =>
      /\ \A r \in Threads :
           (pc[r] = "RUnlock" /\ op[r].ec = op[u].ec) =>
             /\ pc[u] \in {"Lock", "LockWait", "done"}
             /\ op[r].before = Errors[op[r].ec]
             /\ op[r].str = Lines(op[r].before)
             /\ pc[u] = "done" => IsPrefix(BatchResult(u), op[r].before)
      /\ pc[u] = "Unlock" => Errors[op[u].ec] = BatchResult(u)
      /\ pc[u] = "done" => IsPrefix(BatchResult(u), Errors[op[u].ec])

\* Error() has read both entries of a batch that returned before it
C15_Witness ==
  \E u, r \in Threads :
    /\ op[u].name = "AddErrors"
    /\ pc[u] = "done"
    /\ op[u].errs = <<JE_a1, Gen_1>>
    /\ pc[r] = "RUnlock"
    /\ op[r].ec = op[u].ec
    /\ op[r].before = <<JE_a1, Gen_1>>

\* --------------------------------------------------------------------- C16
\* every goroutine has called AddError on c and returned, and the payloads
\* are duplicates of each other under c's rejecting policy
C16_Scenario(c) ==
  /\ DuplicatationOptions[c] \in Rejecting
  /\ \A t \in Threads :
       /\ pc[t] = "done"
       /\ op[t].name = "AddError"
       /\ op[t].ec = c
       /\ op[t].errs[1] # Nil
  /\ \A t, u \in Threads :
       DuplicateUnder(DuplicatationOptions[c], op[t].errs[1], op[u].errs[1])

\* C16: when all NumThreads goroutines have called AddError on one empty
\* collection with a rejecting policy, with payloads that are duplicates of
\* each other under that policy, exactly one of the payloads is stored,
\* whatever the interleaving.
C16_OneStored ==
  \A c \in Colls :
    C16_Scenario(c) =>
      /\ Len(Errors[c]) = 1
      /\ \E t \in Threads : Errors[c][1] = op[t].errs[1]

\* the payloads differ by their timestamps and one of them is stored
C16_Witness ==
  \E c \in Colls :
    /\ C16_Scenario(c)
    /\ DuplicatationOptions[c] = RejectDuplicatesIgnoreTimestamp
    /\ \E t, u \in Threads : op[t].errs[1] = JE_a1 /\ op[u].errs[1] = JE_a2
    /\ Len(Errors[c]) = 1

\* --------------------------------------------------------------------- C17
\* C17: a merge from another collection never holds the lock of its source,
\* neither for writing nor for reading; what it ranges over is a prefix of
\* the source's entries, read while other goroutines may be inside a mutating
\* call on the source.
C17_SourceNotLocked ==
  \A t \in Threads :
    LET f == op[t] IN
    (f.name = "AddErrorCollection" /\ f.src # f.ec) =>
      /\ writer[f.src] # t
      /\ t \notin readers[f.src]
      /\ pc[t] \in {"addError", "load", "append", "Unlock", "done"} =>
           IsPrefix(f.errs, Errors[f.src])

\* the merge has copied the first error of a batch on its source while the
\* batch is still inside its critical section
C17_Witness ==
  \E t, u \in Threads :
    /\ Finished(t, "AddErrorCollection")
    /\ op[t].src # op[t].ec
    /\ op[t].errs = <<JE_a1>>
    /\ Errors[op[t].ec] = <<JE_a1>>
    /\ op[u].name = "AddErrors"
    /\ op[u].ec = op[t].src
    /\ op[u].errs = <<JE_a1, Gen_1>>
    /\ Writing(u, op[t].src)

\* --------------------------------------------------------------------- C18
HoldsNoLock(t) == \A c \in Colls : writer[c] # t /\ t \notin readers[c]

\* C18: under fair scheduling every call of AddError, AddErrors,
\* AddErrorCollection or Error() that a goroutine has started returns, whatever
\* the other goroutine calls on the same or the other collection, and the
\* goroutine that has returned holds no lock.
C18_NoDeadlock ==
  \A t \in Sharers : (pc[t] \notin {"idle", "done"}) ~> (pc[t] = "done" /\ HoldsNoLock(t))

\* the two collections have been merged into each other by the two
\* goroutines, and both calls have returned
C18_Witness ==
  \E t, u \in Sharers :
    /\ pc[t] = "done"
    /\ pc[u] = "done"
    /\ op[t].name = "AddErrorCollection"
    /\ op[u].name = "AddErrorCollection"
    /\ op[t].ec = op[u].src
    /\ op[u].ec = op[t].src
    /\ op[t].ec # op[u].ec
    /\ Len(Errors[op[t].ec]) > 1
    /\ HoldsNoLock(t)
    /\ HoldsNoLock(u)

\* --------------------------------------------------------------------- C19
\* C19: the entries only grow at the end. In every step of every
\* interleaving the entries of each collection before the step are a prefix
\* of its entries after it (none removed, replaced or reordered; the size
\* never decreases), and when a mutating call ends, the entries it found at
\* its Lock are a prefix of the entries it leaves.
C19_AppendOnly ==
  [][ /\ \A c \in Colls : IsPrefix(Errors[c], Errors'[c])
      /\ \A t \in Threads :
           pc'[t] = "Unlock" => IsPrefix(op'[t].before, Errors'[op'[t].ec]) ]_vars

\* a batch has added two entries behind the entry another goroutine's call
\* had stored
C19_Witness ==
  \E t \in Threads :
    /\ Finished(t, "AddErrors")
    /\ Len(op[t].before) = 1
    /\ Len(Errors[op[t].ec]) = 3
    /\ IsPrefix(op[t].before, Errors[op[t].ec])

\* --------------------------------------------------------------------- C20
\* the candidates of the call of goroutine t that are kept under the policy
\* dup: those that are not nil, no duplicate of an entry found at the Lock and
\* no duplicate of an earlier candidate of the same call
FirstOccurrences(dup, before, errs) ==
  LET Kept(k) ==
        /\ errs[k] # Nil
        /\ \A i \in 1 .. Len(before) : ~DuplicateUnder(dup, before[i], errs[k])
        /\ \A j \in 1 .. k - 1 : errs[j] = Nil \/ ~DuplicateUnder(dup, errs[j], errs[k])
      F[k \in 0 .. Len(errs)] ==
        IF k = 0 THEN <<>>
        ELSE IF Kept(k) THEN Append(F[k - 1], errs[k]) ELSE F[k - 1]
  IN  F[Len(errs)]

\* C20: under a rejecting policy an AddErrors or AddErrorCollection call
\* compares each candidate with the entries accepted so far, those accepted
\* earlier in the same call included: the call leaves the entries it found
\* followed by its candidates folded in one by one, which are the first
\* occurrences among them; AddErrors(e, e) on an empty collection leaves one
\* entry.
C20_AcceptedSoFar ==
  \A t \in Threads :
    LET f == op[t]
        dup == DuplicatationOptions[f.ec]
    IN  ( /\ pc[t] = "Unlock"
          /\ f.name \in {"AddErrors", "AddErrorCollection"}
          /\ dup \in Rejecting )
        => /\ Errors[f.ec] = MergedUnder(dup, f.before, NonNil(f.errs))
           /\ Errors[f.ec] = f.before \o FirstOccurrences(dup, f.before, f.errs)
           /\ ( /\ f.before = <<>>
                /\ Len(f.errs) = 2
                /\ f.errs[1] = f.errs[2]
                /\ f.errs[1] # Nil ) => Len(Errors[f.ec]) = 1

\* AddErrors(e, e) on an empty collection with a rejecting policy
C20_Witness ==
  \E t \in Threads :
    /\ Finished(t, "AddErrors")
    /\ DuplicatationOptions[op[t].ec] \in Rejecting
    /\ op[t].before = <<>>
    /\ op[t].errs = <<JE_a1, JE_a1>>
    /\ Errors[op[t].ec] = <<JE_a1>>

\* --------------------------------------------------------------------- C21
Adds == {"AddError", "AddErrors", "AddErrorCollection"}

\* C21: a collection changes only by the append of an add call on it as the
\* receiver. In every step the policies stay as they are; the entries of a
\* collection change only in the append of an AddError, AddErrors or
\* AddErrorCollection call whose receiver it is; no step of an Error() or
\* IsNil call changes entries, policy or formatter; an AddError whose
\* candidate is a duplicate of an entry under a rejecting policy ends with
\* the entries it found; and a merge from another collection ends with the
\* source's entries as it read them.
C21_Frame ==
  [][ /\ DuplicatationOptions' = DuplicatationOptions
      /\ \A c \in Colls :
           Errors'[c] # Errors[c] =>
             \E t \in Threads :
               pc[t] = "append" /\ op[t].ec = c /\ op[t].name \in Adds
      /\ \A t \in Threads :
           (pc[t] # "idle" /\ op[t].name \in {"Error", "IsNil"}) =>
             /\ Errors' = Errors
             /\ Formatter' = Formatter
      /\ \A t \in Threads :
           LET f == op'[t]
               dup == DuplicatationOptions'[f.ec]
           IN  /\ ( /\ pc'[t] = "Unlock"
                    /\ f.name = "AddError"
                    /\ dup \in Rejecting
                    /\ f.errs[1] # Nil
                    /\ \E i \in 1 .. Len(f.before) :
                         DuplicateUnder(dup, f.before[i], f.errs[1]) )
                  => Errors'[f.ec] = f.before
               /\ ( /\ pc'[t] = "Unlock"
                    /\ f.name = "AddErrorCollection"
                    /\ f.src # f.ec )
                  => Errors'[f.src] = f.errs ]_vars

\* Error() has formatted the two entries of collection 1 with the caller's
\* formatter, and the collection is as it was
C21_Witness ==
  \E t \in Threads :
    /\ pc[t] = "RUnlock"
    /\ op[t].name = "Error"
    /\ Formatter[op[t].ec] = "custom"
    /\ op[t].before = <<JE_a1, Gen_1>>
    /\ Errors[op[t].ec] = <<JE_a1, Gen_1>>
    /\ op[t].str = Items(<<JE_a1, Gen_1>>)

\* --------------------------------------------------------------------- C22
\* C22: a merge of a collection into itself goes through: its caller can
\* take the lock and every later step of the call up to the return; the call
\* ranges over the entries the collection held when it took the lock; under
\* AllowDuplicates it leaves those entries followed by a second copy of them
\* (twice the size), and under a rejecting policy it leaves them as they
\* were.
C22_SelfMerge ==
  \A t \in Threads :
    LET f == op[t] IN
    (pc[t] # "idle" /\ f.name = "AddErrorCollection" /\ f.src = f.ec) =>
      /\ ENABLED (Lock(t) \/ addError(t) \/ load(t) \/ append(t) \/ Unlock(t, "idle"))
      /\ pc[t] # "Lock" => f.errs = f.before
      /\ pc[t] = "Unlock" =>
           IF DuplicatationOptions[f.ec] = AllowDuplicates
           THEN /\ Errors[f.ec] = f.before \o f.before
                /\ Len(Errors[f.ec]) = 2 * Len(f.before)
           ELSE Errors[f.ec] = f.before

\* a collection of two entries that allows duplicates, merged into itself
C22_Witness ==
  \E t \in Threads :
    /\ Finished(t, "AddErrorCollection")
    /\ op[t].src = op[t].ec
    /\ DuplicatationOptions[op[t].ec] = AllowDuplicates
    /\ op[t].before = <<JE_a1, Gen_1>>
    /\ Errors[op[t].ec] = <<JE_a1, Gen_1, JE_a1, Gen_1>>

====
